---------------------------- MODULE Spec2Model ----------------------------
(***************************************************************************)
(* The SecureScan dashboard page of src/src/pages/Index.tsx as a state     *)
(* machine.  The file holds two definitions of the Index component: the    *)
(* current one (lines 23-568: abort timer, toasts, backendConnected, PDF   *)
(* export) and an earlier one (lines 591-1000: none of these).  The        *)
(* variable copy says which of the two is the mounted component.           *)
(*                                                                         *)
(* Strings the code computes on (the target) are sequences of one-character*)
(* strings, so that trim() is computed and not assumed.  A run of          *)
(* handleScan is a record in runs: the closure values it captured, where   *)
(* it is suspended (at await fetch or at await response.json()) and the    *)
(* state of its abort timer.  Each synchronous segment of a handler is one *)
(* action.  The updates a segment queues with the set functions are        *)
(* committed by a render after the segment; the page the user acts on is   *)
(* the last committed render, kept in rendered.                            *)
(***************************************************************************)
EXTENDS Naturals, Sequences, FiniteSets

(***************************************************************************)
(* Bounds of the model.                                                    *)
(***************************************************************************)
\* handleScan runs (and their timers) that may exist at the same time
MaxRuns == 2
\* longest result array a backend response carries
MaxFindings == 1

(***************************************************************************)
(* Values.                                                                 *)
(***************************************************************************)
Copies == {1, 2}

\* the <option> values of select#scanType
ScanTypes == {"nmap", "nuclei", "nikto"}

\* what the user may put into input#targetInput: nothing, whitespace only,
\* a host name padded with whitespace, a shell metacharacter
TargetInputs ==
  { <<>>,
    <<" ">>,
    <<" ", "a", " ">>,
    <<"a", ";", "b">> }

IsWhitespace(c) == c = " "

RECURSIVE TrimStart(_)
TrimStart(s) ==
  IF s = <<>> THEN <<>>
  ELSE IF IsWhitespace(Head(s)) THEN TrimStart(Tail(s))
  ELSE s

RECURSIVE TrimEnd(_)
TrimEnd(s) ==
  IF s = <<>> THEN <<>>
  ELSE IF IsWhitespace(s[Len(s)]) THEN TrimEnd(SubSeq(s, 1, Len(s) - 1))
  ELSE s

\* String.prototype.trim
Trim(s) == TrimEnd(TrimStart(s))

\* (mutant: the test written  !target, without trim)
EmptyTargetUntrimmed(t) == t = <<>>

\* the test  !target.trim()  of handleScan and of the scan button
EmptyTarget(t) == Trim(t) = <<>>

\* (mutant: the body built from the raw target)
RequestBodyUntrimmed(t, type) == [target |-> t, type |-> type]

\* JSON.stringify({target: target.trim(), type: scanType}), the body of the
\* POST to BACKEND_URL/scan
RequestBody(t, type) == [target |-> Trim(t), type |-> type]

\* (mutant: the switch without its default case, an unknown type falling
\* back to the first list)
generateDemoResultsWithoutDefault(type) ==
  CASE type = "nuclei" ->
         << [title |-> "SSL Certificate Expiry Warning", severity |-> "medium",
             url |-> "https://example.com",
             description |-> "SSL certificate expires within 30 days"],
            [title |-> "Directory Listing Enabled", severity |-> "low",
             url |-> "https://example.com/assets/",
             description |-> "Directory listing is enabled and may expose sensitive files"],
            [title |-> "Missing Security Headers", severity |-> "medium",
             url |-> "https://example.com",
             description |-> "Missing X-Frame-Options header"] >>
    [] type = "nikto" ->
         << [description |-> "Server leaks inodes via ETags, header found with file /, inode: 12345, size: 4096, mtime: Mon Dec 25 10:23:45 2023",
             endpoint |-> "/"],
            [description |-> "The anti-clickjacking X-Frame-Options header is not present.",
             endpoint |-> "/"],
            [description |-> "Web server returns a valid response with junk HTTP methods, this may cause false positives.",
             endpoint |-> "/"] >>
    [] OTHER ->
         << [port |-> <<"2", "2">>, state |-> "open", service |-> "ssh"],
            [port |-> <<"8", "0">>, state |-> "open", service |-> "http"],
            [port |-> <<"4", "4", "3">>, state |-> "open", service |-> "https"],
            [port |-> <<"3", "3", "0", "6">>, state |-> "filtered",
             service |-> "mysql"] >>

\* (a port is a string of the code: the sequence of its characters)
generateDemoResults(type) ==
  CASE type = "nmap" ->
         << [port |-> <<"2", "2">>, state |-> "open", service |-> "ssh"],
            [port |-> <<"8", "0">>, state |-> "open", service |-> "http"],
            [port |-> <<"4", "4", "3">>, state |-> "open", service |-> "https"],
            [port |-> <<"3", "3", "0", "6">>, state |-> "filtered",
             service |-> "mysql"] >>
    [] type = "nuclei" ->
         << [title |-> "SSL Certificate Expiry Warning", severity |-> "medium",
             url |-> "https://example.com",
             description |-> "SSL certificate expires within 30 days"],
            [title |-> "Directory Listing Enabled", severity |-> "low",
             url |-> "https://example.com/assets/",
             description |-> "Directory listing is enabled and may expose sensitive files"],
            [title |-> "Missing Security Headers", severity |-> "medium",
             url |-> "https://example.com",
             description |-> "Missing X-Frame-Options header"] >>
    [] type = "nikto" ->
         << [description |-> "Server leaks inodes via ETags, header found with file /, inode: 12345, size: 4096, mtime: Mon Dec 25 10:23:45 2023",
             endpoint |-> "/"],
            [description |-> "The anti-clickjacking X-Frame-Options header is not present.",
             endpoint |-> "/"],
            [description |-> "Web server returns a valid response with junk HTTP methods, this may cause false positives.",
             endpoint |-> "/"] >>
    [] OTHER -> <<>>

(***************************************************************************)
(* What the backend may answer.                                            *)
(***************************************************************************)
\* Findings a backend may report.  The page puts data.result into scanResults
\* as it arrives (every member of ScanResult is optional and nothing is
\* checked at run time): a port finding, a finding with members of two kinds,
\* a port finding whose port and state are outside their ranges.
BackendFindings ==
  { [port |-> <<"8", "0", "8", "0">>, state |-> "closed", service |-> "http-alt"],
    [port |-> <<"8", "0">>, state |-> "open", service |-> "http",
     title |-> "Missing Security Headers"],
    [port |-> <<"7", "0", "0", "0", "0">>, state |-> "unknown",
     service |-> "ftp"] }

SeqsUpTo(S, n) == UNION { [1..k -> S] : k \in 0..n }

\* A response body.  json: "invalid" (response.json() rejects), "null" (the
\* JSON text null), "number" (a JSON number) or "object"; an object may have
\* a result member, which is an array (result) or null (resultIsArray FALSE).
Body(json, hasResult, resultIsArray, result) ==
  [json |-> json, hasResult |-> hasResult, resultIsArray |-> resultIsArray,
   result |-> result]

Bodies ==
  { Body("invalid", FALSE, FALSE, <<>>),
    Body("null", FALSE, FALSE, <<>>),
    Body("number", FALSE, FALSE, <<>>),
    Body("object", FALSE, FALSE, <<>>),
    Body("object", TRUE, FALSE, <<>>) }
  \cup { Body("object", TRUE, TRUE, r) : r \in SeqsUpTo(BackendFindings, MaxFindings) }

(***************************************************************************)
(* State.                                                                  *)
(***************************************************************************)
VARIABLES
  copy,              \* which definition of Index is mounted
  target,            \* useState("")
  scanType,          \* useState("nmap")
  isScanning,        \* useState(false)
  scanResults,       \* useState([])
  lastScanInfo,      \* useState(null); the timestamp is not modelled
  backendConnected,  \* useState(false) (copy 1 only; never written in copy 2)
  toast,             \* the last toast issued through useToast (copy 1 only)
  rendered,          \* the state as of the last committed render
  pending,           \* who queued the updates not yet rendered: "none",
                     \* "click" (handleScan's first segment), "continuation"
  runs,              \* the handleScan runs and their abort timers
  event,             \* what the last step did (history, read by the properties)
  lastOutcome,       \* how the run that ended last ended, and the request it
                     \* had sent (history, read by the properties)
  exported           \* what the last handler put on the clipboard or saved
                     \* as a file

vars == <<copy, target, scanType, isScanning, scanResults, lastScanInfo,
          backendConnected, toast, rendered, pending, runs, event,
          lastOutcome, exported>>

RunIds == 1..MaxRuns

NullInfo == [null |-> TRUE, type |-> "", target |-> <<>>]

\* (mutant: the target recorded as typed)
ScanInfoUntrimmed(type, t) == [null |-> FALSE, type |-> type, target |-> t]

\* {type: scanType, target: target.trim(), timestamp: new Date()}
ScanInfo(type, t) == [null |-> FALSE, type |-> type, target |-> Trim(t)]

NoToast == [title |-> "", description |-> "", count |-> 0, variant |-> ""]

\* a free slot of runs
IdleRun == [pc |-> "idle", target |-> <<>>, type |-> "", timer |-> "none",
            body |-> [target |-> <<>>, type |-> ""]]

\* op: the step taken; released: how many times the step called
\* setIsScanning(false)
Event(op, released) == [op |-> op, released |-> released]

\* what a render reads of the state that handleScan writes
Snapshot(scanning, results, info, connected) ==
  [isScanning |-> scanning, scanResults |-> results, lastScanInfo |-> info,
   backendConnected |-> connected]

\* path: "none", "backend" (the end of the try block) or "demo" (the catch
\* block); body: the request body of that run
Outcome(path, body) == [path |-> path, body |-> body]

\* What a handler copied or saved.  kind: "none", "clipboard", "json", "pdf";
\* layout: the scanType in the file name, by which downloadPDF also chooses
\* the members it prints; type, target, status: the Scan Type, Target and
\* Backend Status lines of the PDF; findings: the findings written.
Export(kind, layout, type, t, status, findings) ==
  [kind |-> kind, layout |-> layout, type |-> type, target |-> t,
   status |-> status, findings |-> findings]

\* nothing copied or saved
NoExport == Export("none", "", "", <<>>, "", <<>>)

Init ==
  /\ copy \in Copies
  /\ target = <<>>
  /\ scanType = "nmap"
  /\ isScanning = FALSE
  /\ scanResults = <<>>
  /\ lastScanInfo = NullInfo
  /\ backendConnected = FALSE
  /\ toast = NoToast
  /\ rendered = Snapshot(FALSE, <<>>, NullInfo, FALSE)
  /\ pending = "none"
  /\ runs = [i \in RunIds |-> IdleRun]
  /\ event = Event("init", 0)
  /\ lastOutcome = Outcome("none", IdleRun.body)
  /\ exported = NoExport

(***************************************************************************)
(* The page state a handler segment works on, as one record, so that the   *)
(* try / catch / finally of handleScan compose as the code composes them.  *)
(* released counts the setIsScanning(false) calls of the segment.          *)
(***************************************************************************)
Page ==
  [isScanning |-> isScanning, scanResults |-> scanResults,
   lastScanInfo |-> lastScanInfo, backendConnected |-> backendConnected,
   toast |-> toast, released |-> 0]

Commit(st) ==
  /\ isScanning' = st.isScanning
  /\ scanResults' = st.scanResults
  /\ lastScanInfo' = st.lastScanInfo
  /\ backendConnected' = st.backendConnected
  /\ toast' = st.toast

CurrentSnapshot == Snapshot(isScanning, scanResults, lastScanInfo, backendConnected)

\* data.result || []
ResultOrEmpty(data) ==
  IF data.hasResult /\ data.resultIsArray THEN data.result ELSE <<>>

\* data.result?.length || 0
ResultCount(data) ==
  IF data.hasResult /\ data.resultIsArray THEN Len(data.result) ELSE 0

\* (mutant: the try block without setBackendConnected(true))
TryParsedKeepingBackendConnected(st, c, t, type, data) ==
  [st EXCEPT
     !.scanResults = ResultOrEmpty(data),
     !.lastScanInfo = ScanInfo(type, t),
     !.toast = IF c = 1
               THEN [title |-> "Scan completed", description |-> "Found N results",
                     count |-> ResultCount(data), variant |-> "default"]
               ELSE @]

\* the statements of the try block after  await response.json()
TryParsed(st, c, t, type, data) ==
  [st EXCEPT
     !.scanResults = ResultOrEmpty(data),
     !.backendConnected = IF c = 1 THEN TRUE ELSE @,
     !.lastScanInfo = ScanInfo(type, t),
     !.toast = IF c = 1
               THEN [title |-> "Scan completed", description |-> "Found N results",
                     count |-> ResultCount(data), variant |-> "default"]
               ELSE @]

\* (mutant: the catch block without setBackendConnected(false))
CatchKeepsBackendConnected(st, c, t, type) ==
  [st EXCEPT
     !.toast = IF c = 1
               THEN [title |-> "Backend unavailable",
                     description |-> "Using demo data. Connect your backend for real scans.",
                     count |-> 0, variant |-> "destructive"]
               ELSE @,
     !.scanResults = generateDemoResults(type),
     !.lastScanInfo = ScanInfo(type, t)]

\* the catch block
Catch(st, c, t, type) ==
  [st EXCEPT
     !.toast = IF c = 1
               THEN [title |-> "Backend unavailable",
                     description |-> "Using demo data. Connect your backend for real scans.",
                     count |-> 0, variant |-> "destructive"]
               ELSE @,
     !.scanResults = generateDemoResults(type),
     !.backendConnected = IF c = 1 THEN FALSE ELSE @,
     !.lastScanInfo = ScanInfo(type, t)]

\* (mutant: setIsScanning(false) left out)
FinallyWithoutRelease(st) == st

\* the finally block
Finally(st) ==
  [st EXCEPT !.isScanning = FALSE, !.released = @ + 1]

\* response.json() rejects: the body is not JSON
JsonRejects(data) == data.json = "invalid"

\* data.result  throws a TypeError: data is the JSON value null
ThrowsOnResult(data) == data.json = "null"

InFlight(r) == r.pc \in {"fetching", "reading"}

\* The slot of a run that has returned: its timer, when still armed, outlives it
Returned(r) ==
  IF r.timer = "armed" THEN [IdleRun EXCEPT !.pc = "ended", !.timer = "armed"]
  ELSE IdleRun

\* (mutant: clearTimeout left out)
ClearTimeoutForgotten(timer) == timer

\* clearTimeout(timeoutId)
ClearTimeout(timer) == IF timer = "armed" THEN "cleared" ELSE timer

(***************************************************************************)
(* Scheduling.  The updates of a segment are rendered when the task that   *)
(* ran it is over, before a timer, a response or an input of another task  *)
(* is handled.  Only an event dispatched in the same task can come before  *)
(* the render: a second click dispatched while the task of the first click *)
(* is still running.                                                       *)
(***************************************************************************)
NewTask == pending = "none"
ClickDispatch == pending \in {"none", "click"}

(***************************************************************************)
(* The user's actions, on the page as last rendered.                       *)
(***************************************************************************)
\* input#targetInput and select#scanType: disabled={isScanning}
InputDisabled == rendered.isScanning

\* button#scanButton: disabled={!target.trim() || isScanning}
ScanButtonDisabled == EmptyTarget(target) \/ rendered.isScanning

\* input#targetInput onChange: setTarget(e.target.value)
SetTarget(v) ==
  /\ NewTask
  /\ ~InputDisabled
  /\ target' = v
  /\ event' = Event("input", 0)
  /\ exported' = NoExport
  /\ UNCHANGED <<copy, scanType, isScanning, scanResults, lastScanInfo,
                 backendConnected, toast, rendered, pending, runs, lastOutcome>>

\* (mutant: a change of the scan type that also empties the findings)
SetScanTypeClearingResults(v) ==
  /\ NewTask
  /\ ~InputDisabled
  /\ scanType' = v
  /\ scanResults' = <<>>
  /\ event' = Event("input", 0)
  /\ exported' = NoExport
  /\ UNCHANGED <<copy, target, isScanning, lastScanInfo,
                 backendConnected, toast, rendered, pending, runs, lastOutcome>>

\* select#scanType onChange: setScanType(e.target.value)
SetScanType(v) ==
  /\ NewTask
  /\ ~InputDisabled
  /\ scanType' = v
  /\ event' = Event("input", 0)
  /\ exported' = NoExport
  /\ UNCHANGED <<copy, target, isScanning, scanResults, lastScanInfo,
                 backendConnected, toast, rendered, pending, runs, lastOutcome>>

\* (mutant: handleScan without setScanResults([]))
handleScanKeepingResults(t, type) ==
  IF EmptyTarget(t)
  THEN /\ event' = Event("handleScanReturned", 0)
       /\ exported' = NoExport
       /\ UNCHANGED <<copy, target, scanType, isScanning, scanResults,
                      lastScanInfo, backendConnected, toast, rendered, pending,
                      runs, lastOutcome>>
  ELSE \E i \in RunIds :
         /\ runs[i].pc = "idle"
         /\ \A j \in RunIds : j < i => runs[j].pc # "idle"
         /\ runs' = [runs EXCEPT ![i] =
                       [pc |-> "fetching", target |-> t, type |-> type,
                        timer |-> IF copy = 1 THEN "armed" ELSE "none",
                        body |-> RequestBody(t, type)]]
         /\ isScanning' = TRUE
         /\ pending' = "click"
         /\ event' = Event("handleScanStarted", 0)
         /\ exported' = NoExport
         /\ UNCHANGED <<copy, target, scanType, scanResults, lastScanInfo,
                        backendConnected, toast, rendered, lastOutcome>>

\* handleScan up to  await fetch(...), with the target and scanType of the
\* render whose button was clicked
handleScan(t, type) ==
  IF EmptyTarget(t)
  THEN /\ event' = Event("handleScanReturned", 0)
       /\ exported' = NoExport
       /\ UNCHANGED <<copy, target, scanType, isScanning, scanResults,
                      lastScanInfo, backendConnected, toast, rendered, pending,
                      runs, lastOutcome>>
  ELSE \E i \in RunIds :
         /\ runs[i].pc = "idle"
         /\ \A j \in RunIds : j < i => runs[j].pc # "idle"
         /\ runs' = [runs EXCEPT ![i] =
                       [pc |-> "fetching", target |-> t, type |-> type,
                        timer |-> IF copy = 1 THEN "armed" ELSE "none",
                        body |-> RequestBody(t, type)]]
         /\ isScanning' = TRUE
         /\ scanResults' = <<>>
         /\ pending' = "click"
         /\ event' = Event("handleScanStarted", 0)
         /\ exported' = NoExport
         /\ UNCHANGED <<copy, target, scanType, lastScanInfo, backendConnected,
                        toast, rendered, lastOutcome>>

\* a click on the scan button: a disabled button delivers no click
ClickDisabled ==
  /\ ClickDispatch
  /\ ScanButtonDisabled
  /\ event' = Event("clickDisabled", 0)
  /\ exported' = NoExport
  /\ UNCHANGED <<copy, target, scanType, isScanning, scanResults,
                 lastScanInfo, backendConnected, toast, rendered, pending, runs,
                 lastOutcome>>

ClickScan ==
  /\ ClickDispatch
  /\ ~ScanButtonDisabled
  /\ handleScan(target, scanType)

(***************************************************************************)
(* Copy and download.  The handlers read the values of the render whose    *)
(* button was clicked; the toasts exist in the component of lines 23-568.  *)
(***************************************************************************)
\* the three buttons are rendered when scanResults.length > 0
ExportsShown == rendered.scanResults # <<>>

InfoToast(title, description) ==
  [title |-> title, description |-> description, count |-> 0,
   variant |-> "default"]

\* what a handler leaves: the toast it issued and what it copied or saved
Effect(t, e) == [toast |-> t, exported |-> e]

\* copyToClipboard(JSON.stringify(scanResults, null, 2))
copyToClipboard(c, results, oldToast) ==
  Effect(IF c = 1
         THEN InfoToast("Copied to clipboard", "Scan results copied successfully")
         ELSE oldToast,
         Export("clipboard", "", "", <<>>, "", results))

\* saves scan-results-${scanType}-${Date.now()}.json
downloadResults(c, results, type, oldToast) ==
  Effect(IF c = 1
         THEN InfoToast("Download started", "JSON file has been downloaded")
         ELSE oldToast,
         Export("json", type, "", <<>>, "", results))

\* result.port || 'N/A'  and the like (a port is a sequence of characters)
Member(f, name, na) == IF name \in DOMAIN f THEN f[name] ELSE na

\* the lines downloadPDF prints for one finding, chosen by scanType
PdfEntry(f, type) ==
  CASE type = "nmap" ->
         [Port |-> Member(f, "port", <<"N", "/", "A">>),
          State |-> Member(f, "state", "N/A"),
          Service |-> Member(f, "service", "N/A")]
    [] type = "nuclei" ->
         [Title |-> Member(f, "title", "N/A"),
          Severity |-> Member(f, "severity", "N/A"),
          URL |-> Member(f, "url", "N/A"),
          Description |-> Member(f, "description", "N/A")]
    [] type = "nikto" ->
         [Endpoint |-> Member(f, "endpoint", "N/A"),
          Description |-> Member(f, "description", "N/A")]
    [] OTHER -> <<>>

PdfEntries(results, type) ==
  [k \in 1..Len(results) |-> PdfEntry(results[k], type)]

\* (mutant: the guard without the test of scanResults.length)
PdfGuardInfoOnly(info, results) == info.null

\* !lastScanInfo || scanResults.length === 0
PdfGuard(info, results) == info.null \/ results = <<>>

\* downloadPDF (only in the component of lines 23-568)
downloadPDF(info, results, type, connected) ==
  IF PdfGuard(info, results)
  THEN Effect([title |-> "No data to export",
               description |-> "Please run a scan first", count |-> 0,
               variant |-> "destructive"],
              NoExport)
  ELSE Effect(InfoToast("PDF downloaded", "Scan report has been exported as PDF"),
              Export("pdf", type, info.type, info.target,
                     IF connected THEN "Connected" ELSE "Demo Mode",
                     PdfEntries(results, type)))

\* a handler that only copies or saves
Exports(op, eff) ==
  /\ toast' = eff.toast
  /\ exported' = eff.exported
  /\ event' = Event(op, 0)
  /\ UNCHANGED <<copy, target, scanType, isScanning, scanResults,
                 lastScanInfo, backendConnected, rendered, pending, runs,
                 lastOutcome>>

ClickCopy ==
  /\ ClickDispatch
  /\ ExportsShown
  /\ Exports("copyToClipboard", copyToClipboard(copy, rendered.scanResults, toast))

ClickDownloadJSON ==
  /\ ClickDispatch
  /\ ExportsShown
  /\ Exports("downloadResults",
             downloadResults(copy, rendered.scanResults, scanType, toast))

ClickDownloadPDF ==
  /\ ClickDispatch
  /\ copy = 1
  /\ ExportsShown
  /\ Exports("downloadPDF",
             downloadPDF(rendered.lastScanInfo, rendered.scanResults, scanType,
                         rendered.backendConnected))

\* React commits the updates the handler segments queued
Render ==
  /\ pending # "none"
  /\ rendered' = CurrentSnapshot
  /\ pending' = "none"
  /\ UNCHANGED <<copy, target, scanType, isScanning, scanResults, lastScanInfo,
                 backendConnected, toast, runs, event, lastOutcome, exported>>

(***************************************************************************)
(* The continuations of handleScan.                                        *)
(***************************************************************************)
\* a run leaves through catch and finally
Fail(i, timer) ==
  LET r == runs[i]
      st == Finally(Catch(Page, copy, r.target, r.type))
  IN /\ Commit(st)
     /\ runs' = [runs EXCEPT ![i] = Returned([r EXCEPT !.timer = timer])]
     /\ pending' = "continuation"
     /\ event' = Event("scanFailed", st.released)
     /\ lastOutcome' = Outcome("demo", r.body)
     /\ exported' = NoExport
     /\ UNCHANGED <<copy, target, scanType, rendered>>

\* a run leaves through the end of the try block and finally
Succeed(i, data) ==
  LET r == runs[i]
      st == Finally(TryParsed(Page, copy, r.target, r.type, data))
  IN /\ Commit(st)
     /\ runs' = [runs EXCEPT ![i] = Returned(r)]
     /\ pending' = "continuation"
     /\ event' = Event("scanSucceeded", st.released)
     /\ lastOutcome' = Outcome("backend", r.body)
     /\ exported' = NoExport
     /\ UNCHANGED <<copy, target, scanType, rendered>>

\* fetch rejects (the backend is unreachable): clearTimeout is not reached
FetchRejects(i) ==
  /\ NewTask
  /\ runs[i].pc = "fetching"
  /\ Fail(i, runs[i].timer)

\* The 10 second timer fires while its run is suspended: controller.abort()
\* makes the pending fetch, or the pending read of the body, reject with an
\* AbortError.
TimerAborts(i) ==
  /\ NewTask
  /\ runs[i].timer = "armed"
  /\ InFlight(runs[i])
  /\ Fail(i, "fired")

\* The timer of a run that has returned fires: abort() of a settled request
TimerFiresLate(i) ==
  /\ NewTask
  /\ runs[i].timer = "armed"
  /\ ~InFlight(runs[i])
  /\ runs' = [runs EXCEPT ![i] = IdleRun]
  /\ event' = Event("timerFiredLate", 0)
  /\ exported' = NoExport
  /\ UNCHANGED <<copy, target, scanType, isScanning, scanResults,
                 lastScanInfo, backendConnected, toast, rendered, pending,
                 lastOutcome>>

\* fetch resolves with a response whose status is not ok: clearTimeout, throw
HttpError(i) ==
  /\ NewTask
  /\ runs[i].pc = "fetching"
  /\ Fail(i, ClearTimeout(runs[i].timer))

\* fetch resolves with an ok response: clearTimeout, then response.json() is
\* called and awaited
ResponseOk(i) ==
  /\ NewTask
  /\ runs[i].pc = "fetching"
  /\ runs' = [runs EXCEPT ![i].pc = "reading",
                          ![i].timer = ClearTimeout(runs[i].timer)]
  /\ event' = Event("responseOk", 0)
  /\ exported' = NoExport
  /\ UNCHANGED <<copy, target, scanType, isScanning, scanResults,
                 lastScanInfo, backendConnected, toast, rendered, pending,
                 lastOutcome>>

\* response.json() rejects, or it resolves with null and data.result throws
BodyFails(i, data) ==
  /\ NewTask
  /\ runs[i].pc = "reading"
  /\ JsonRejects(data) \/ ThrowsOnResult(data)
  /\ Fail(i, runs[i].timer)

\* response.json() resolves with data and the try block runs to its end
BodyParsed(i, data) ==
  /\ NewTask
  /\ runs[i].pc = "reading"
  /\ ~JsonRejects(data)
  /\ ~ThrowsOnResult(data)
  /\ Succeed(i, data)

Next ==
  \/ \E v \in TargetInputs : SetTarget(v)
  \/ \E v \in ScanTypes : SetScanType(v)
  \/ ClickDisabled
  \/ ClickScan
  \/ ClickCopy
  \/ ClickDownloadJSON
  \/ ClickDownloadPDF
  \/ Render
  \/ \E i \in RunIds : FetchRejects(i)
  \/ \E i \in RunIds : TimerAborts(i)
  \/ \E i \in RunIds : TimerFiresLate(i)
  \/ \E i \in RunIds : HttpError(i)
  \/ \E i \in RunIds : ResponseOk(i)
  \/ \E i \in RunIds, data \in Bodies : BodyFails(i, data)
  \/ \E i \in RunIds, data \in Bodies : BodyParsed(i, data)

Spec == Init /\ [][Next]_vars

\* React renders the updates that are queued, and a timer that is armed fires
\* when it expires, however often a render that is still due puts its task
\* off; nothing obliges the backend to answer or the user to act.
LiveSpec ==
  /\ Spec
  /\ WF_vars(Render)
  /\ \A i \in RunIds : SF_vars(TimerAborts(i))
  /\ \A i \in RunIds : SF_vars(TimerFiresLate(i))

\* A value of select#scanType that is none of its three options: onChange
\* passes e.target.value, a string, to setScanType unchecked, and handleScan
\* and generateDemoResults take the type as a string.
UnknownKinds == {"zap"}

KindNext ==
  \/ Next
  \/ \E v \in UnknownKinds : SetScanType(v)

\* the page when the selector may deliver a value outside its options
KindSpec == Init /\ [][KindNext]_vars

\* downloadPDF called whatever the page shows: the function tests its data
\* itself (lines 174-181), though its button is rendered only with findings
CallDownloadPDF ==
  /\ ClickDispatch
  /\ copy = 1
  /\ Exports("downloadPDFCalled",
             downloadPDF(rendered.lastScanInfo, rendered.scanResults, scanType,
                         rendered.backendConnected))

ExportNext ==
  \/ Next
  \/ CallDownloadPDF

\* the page, and downloadPDF as a function that may be called in any state
ExportSpec == Init /\ [][ExportNext]_vars

(***************************************************************************)
(* Properties.                                                             *)
(***************************************************************************)
InFlightRuns == { i \in RunIds : InFlight(runs[i]) }

\* run i leaves handleScan through the catch block in this step
RunFails(i) ==
  /\ InFlight(runs[i])
  /\ ~InFlight(runs'[i])
  /\ event'.op = "scanFailed"

\* C1: whenever a run fails (the fetch rejects, the timer aborts it, the status
\* is not ok, the body is not JSON), it ends with scanResults the demo results
\* of the type it submitted, backendConnected false and lastScanInfo the type
\* and the trimmed target it submitted.
C1_FailureFallsBackToDemo ==
  [][\A i \in RunIds :
       RunFails(i) =>
         /\ scanResults' = generateDemoResults(runs[i].body.type)
         /\ backendConnected' = FALSE
         /\ lastScanInfo' = [null |-> FALSE, type |-> runs[i].body.type,
                             target |-> runs[i].body.target]]_vars

\* a failed nuclei scan of " a " after which the page holds the demo findings
C1_Witness ==
  /\ event.op = "scanFailed"
  /\ copy = 1
  /\ scanResults = generateDemoResults("nuclei")
  /\ lastScanInfo = [null |-> FALSE, type |-> "nuclei", target |-> <<"a">>]
  /\ backendConnected = FALSE
  /\ toast.title = "Backend unavailable"

NewRequests == { i \in RunIds : ~InFlight(runs[i]) /\ InFlight(runs'[i]) }

NoOuterWhitespace(s) ==
  s # <<>> /\ ~IsWhitespace(s[1]) /\ ~IsWhitespace(s[Len(s)])

\* C2: a handleScan that passes the empty-target check sends exactly one
\* request, with body {target: target.trim(), type: scanType}; every request
\* in flight has a type of {nmap, nuclei, nikto} and a target that is not
\* empty and has no whitespace at either end.
C2_OneWellFormedRequest ==
  /\ [][(ClickScan /\ Trim(target) # <<>>) =>
          /\ Cardinality(NewRequests) = 1
          /\ \A i \in NewRequests :
               /\ runs'[i].pc = "fetching"
               /\ runs'[i].body = [target |-> Trim(target), type |-> scanType]]_vars
  /\ [](\A i \in InFlightRuns :
          /\ runs[i].body.type \in {"nmap", "nuclei", "nikto"}
          /\ NoOuterWhitespace(runs[i].body.target))

\* the padded target " a " was sent as "a" with type nikto
C2_Witness ==
  /\ event.op = "handleScanStarted"
  /\ target = <<" ", "a", " ">>
  /\ \E i \in InFlightRuns :
       runs[i].body = [target |-> <<"a">>, type |-> "nikto"]

\* C3: a click while target.trim() is empty starts nothing: no request is sent
\* and isScanning, scanResults, lastScanInfo and backendConnected stay as they
\* are.
C3_EmptyTargetRejected ==
  [][(Trim(target) = <<>> /\ (ClickDisabled \/ ClickScan)) =>
       UNCHANGED <<isScanning, scanResults, lastScanInfo, backendConnected,
                   runs>>]_vars

\* a click with a whitespace-only target, refused for that reason alone
C3_Witness ==
  /\ event.op = "clickDisabled"
  /\ target = <<" ">>
  /\ ~rendered.isScanning
  /\ InFlightRuns = {}

\* the characters [A-Za-z0-9.:-]
ValidTargetChars ==
  { "A", "B", "C", "D", "E", "F", "G", "H", "I", "J", "K", "L", "M", "N", "O",
    "P", "Q", "R", "S", "T", "U", "V", "W", "X", "Y", "Z",
    "a", "b", "c", "d", "e", "f", "g", "h", "i", "j", "k", "l", "m", "n", "o",
    "p", "q", "r", "s", "t", "u", "v", "w", "x", "y", "z",
    "0", "1", "2", "3", "4", "5", "6", "7", "8", "9", ".", ":", "-" }

\* C4: a target with a character outside [A-Za-z0-9.:-] never reaches the
\* scan: no request in flight carries one.
C4_NoInvalidTargetSent ==
  \A i \in InFlightRuns :
    \A k \in 1..Len(runs[i].body.target) :
      runs[i].body.target[k] \in ValidTargetChars

\* response.json() of run i settles with data in this step
BodySettles(i, data) == BodyFails(i, data) \/ BodyParsed(i, data)

\* C5: after an ok response whose body is JSON, scanResults is the result
\* array of the body, or empty when the body has none, and backendConnected
\* is true (in the component of lines 23-568, which has it).
C5_SuccessShowsBackendResult ==
  [][\A i \in RunIds, data \in Bodies :
       (copy = 1 /\ data.json # "invalid" /\ BodySettles(i, data)) =>
         /\ scanResults' = IF data.json = "object" /\ data.hasResult
                              /\ data.resultIsArray
                           THEN data.result ELSE <<>>
         /\ backendConnected' = TRUE]_vars

\* C6: a run that ends, on whichever path, has called setIsScanning(false)
\* exactly once and leaves isScanning false; isScanning is true only while a
\* run is suspended.
C6_ReleasedOncePerRun ==
  /\ event.op \in {"scanSucceeded", "scanFailed"} =>
       (event.released = 1 /\ isScanning = FALSE)
  /\ event.op = "handleScanStarted" => isScanning = TRUE
  /\ isScanning = TRUE => InFlightRuns # {}

\* a run has failed and released the marker while another is still suspended
C6_Witness ==
  /\ event.op = "scanFailed"
  /\ event.released = 1
  /\ isScanning = FALSE
  /\ InFlightRuns # {}

\* C7: every started scan of the component with the abort timer ends:
\* isScanning, once true, becomes false again.
C7_EveryScanEnds == (copy = 1 /\ isScanning) ~> ~isScanning

\* C8: a failed scan is reported as an error (a destructive toast with a
\* title and a message) and leaves no findings on the page under the
\* requested target.
C8_FailureReportedNotMasked ==
  event.op = "scanFailed" =>
    /\ toast.variant = "destructive" /\ toast.title # "" /\ toast.description # ""
    /\ ~(scanResults # <<>> /\ ~lastScanInfo.null)

\* C9: at most one request is in flight.
C9_AtMostOneInFlight == Cardinality(InFlightRuns) <= 1

\* the members of the three kinds of finding
PortShape == {"port", "state", "service"}
VulnShape == {"title", "severity", "url", "description"}
MisconfigShape == {"endpoint", "description"}

\* C11: every finding in scanResults has the members of exactly one kind:
\* port/state/service, or title/severity/url/description, or
\* endpoint/description.
C11_OneShapePerFinding ==
  \A k \in 1..Len(scanResults) :
    DOMAIN scanResults[k] \in {PortShape, VulnShape, MisconfigShape}

Digits == {"0", "1", "2", "3", "4", "5", "6", "7", "8", "9"}

DigitValue(c) ==
  CASE c = "0" -> 0 [] c = "1" -> 1 [] c = "2" -> 2 [] c = "3" -> 3
    [] c = "4" -> 4 [] c = "5" -> 5 [] c = "6" -> 6 [] c = "7" -> 7
    [] c = "8" -> 8 [] c = "9" -> 9

\* the integer a string of decimal digits denotes
RECURSIVE Decimal(_)
Decimal(s) ==
  IF s = <<>> THEN 0
  ELSE 10 * Decimal(SubSeq(s, 1, Len(s) - 1)) + DigitValue(s[Len(s)])

IsPortNumber(p) ==
  /\ p # <<>>
  /\ \A k \in 1..Len(p) : p[k] \in Digits
  /\ Decimal(p) \in 1..65535

\* C12: every port finding in scanResults has a port that denotes an integer
\* of 1..65535 and a state that is open, closed or filtered (the code writes
\* the states in lower case).
C12_PortFindingsInRange ==
  \A k \in 1..Len(scanResults) :
    "port" \in DOMAIN scanResults[k] =>
      /\ IsPortNumber(scanResults[k].port)
      /\ "state" \in DOMAIN scanResults[k]
      /\ scanResults[k].state \in {"open", "closed", "filtered"}

C14_InfoNamesProducingScan ==
  (scanResults # <<>> /\ ~isScanning) =>
    /\ ~lastScanInfo.null
    /\ lastOutcome.path \in {"backend", "demo"}
    /\ lastScanInfo.type = lastOutcome.body.type
    /\ lastScanInfo.target = lastOutcome.body.target

\* findings of an nmap scan of " a " on the page after the inputs were edited
C14_Witness ==
  /\ scanResults # <<>>
  /\ ~isScanning
  /\ lastOutcome.body = [target |-> <<"a">>, type |-> "nmap"]
  /\ lastScanInfo = [null |-> FALSE, type |-> "nmap", target |-> <<"a">>]
  /\ scanType = "nikto"
  /\ target = <<"a", ";", "b">>

\* an edit of an input, a copy or a download
EditsAndExports ==
  \/ \E v \in TargetInputs : SetTarget(v)
  \/ \E v \in ScanTypes : SetScanType(v)
  \/ ClickCopy
  \/ ClickDownloadJSON
  \/ ClickDownloadPDF

\* C15: editing the target, changing the scan type, copyToClipboard,
\* downloadResults and downloadPDF change none of scanResults, lastScanInfo
\* and backendConnected: what a run produced stays as it is until a scan
\* starts.
C15_ResultImmutable ==
  [][EditsAndExports =>
       UNCHANGED <<scanResults, lastScanInfo, backendConnected>>]_vars

\* a PDF was saved of findings a backend sent, with no scan running
C15_Witness ==
  /\ event.op = "downloadPDF"
  /\ exported.kind = "pdf"
  /\ exported.findings # <<>>
  /\ scanResults # <<>>
  /\ lastOutcome.path = "backend"
  /\ InFlightRuns = {}

\* C16: findings are shown and exported under the kind of the scan that
\* produced them: whenever scanResults is not empty the scanType that chooses
\* the table or cards equals lastScanInfo.type, and a JSON or PDF file is
\* named and laid out by lastScanInfo.type.
C16_ShownUnderProducingKind ==
  /\ scanResults # <<>> => scanType = lastScanInfo.type
  /\ exported.kind \in {"json", "pdf"} => exported.layout = lastScanInfo.type

\* C17: while a scan is running no findings are on the page: isScanning
\* implies that scanResults is empty, in the state and in what is rendered.
C17_NoStaleFindingsWhileScanning ==
  /\ isScanning => scanResults = <<>>
  /\ rendered.isScanning => rendered.scanResults = <<>>

\* a scan has just started over the findings of an earlier run, while a
\* request older than that run's end is still in flight
C17_Witness ==
  /\ event.op = "handleScanStarted"
  /\ isScanning
  /\ scanResults = <<>>
  /\ rendered.scanResults # <<>>
  /\ lastOutcome.path # "none"
  /\ Cardinality(InFlightRuns) = 2

\* C18: in the component that has it, backendConnected tells how the run that
\* ended last ended: false before any run has ended, true after the success
\* path, false after the fallback.  So findings shown while it is true came
\* from a backend response, findings shown while it is false are the demo
\* findings of the type requested, and the Backend Status line of a PDF says
\* which.
C18_BackendConnectedReflectsLastRun ==
  copy = 1 =>
    /\ backendConnected = (lastOutcome.path = "backend")
    /\ (backendConnected /\ scanResults # <<>>) =>
         \A k \in 1..Len(scanResults) : scanResults[k] \in BackendFindings
    /\ (~backendConnected /\ scanResults # <<>>) =>
         /\ lastOutcome.path = "demo"
         /\ scanResults = generateDemoResults(lastOutcome.body.type)
    /\ exported.kind = "pdf" =>
         exported.status = IF lastOutcome.path = "backend" THEN "Connected"
                           ELSE "Demo Mode"

\* a PDF of backend findings saved after an earlier run had fallen back
C18_Witness ==
  /\ copy = 1
  /\ event.op = "downloadPDF"
  /\ backendConnected
  /\ scanResults # <<>>
  /\ lastOutcome.path = "backend"
  /\ exported.status = "Connected"
  /\ \E i \in RunIds : runs[i].pc = "ended"

\* C19: the abort timer of a scan is cancelled when the response arrives: no
\* run that reads a body has its timer armed.  A run that an abort (or any
\* failure) ends leaves every other run as it is.  A timer that fires after its
\* run has ended (also a run whose fetch failed before clearTimeout) changes
\* nothing on the page and leaves every other run, and so its outcome, as
\* it is.
C19_TimerTouchesOnlyItsOwnScan ==
  /\ [](\A i \in RunIds : runs[i].pc = "reading" => runs[i].timer # "armed")
  /\ [][\A i \in RunIds :
          RunFails(i) => \A j \in RunIds \ {i} : runs'[j] = runs[j]]_vars
  /\ [][\A i \in RunIds :
          (runs[i].timer = "armed" /\ ~InFlight(runs[i])
             /\ runs'[i].timer # "armed") =>
            /\ UNCHANGED <<target, scanType, isScanning, scanResults,
                           lastScanInfo, backendConnected, toast, lastOutcome>>
            /\ \A j \in RunIds \ {i} : runs'[j] = runs[j]]_vars

\* the timer of a run whose fetch had failed fired while a later scan was in
\* flight
C19_Witness ==
  /\ event.op = "timerFiredLate"
  /\ isScanning
  /\ InFlightRuns # {}
  /\ lastOutcome.path = "demo"

\* C20: downloadPDF called while lastScanInfo is null or scanResults is empty
\* saves no file, reports "No data to export" and changes no state; and the
\* copy, JSON and PDF buttons can be clicked only while the page shows
\* findings.
C20_ExportGuardedByData ==
  /\ [][(CallDownloadPDF
           /\ (rendered.lastScanInfo.null \/ Len(rendered.scanResults) = 0)) =>
          /\ exported'.kind = "none"
          /\ toast'.title = "No data to export"
          /\ UNCHANGED <<target, scanType, isScanning, scanResults,
                         lastScanInfo, backendConnected>>]_vars
  /\ [][(ClickCopy \/ ClickDownloadJSON \/ ClickDownloadPDF) =>
          Len(rendered.scanResults) > 0]_vars

\* downloadPDF was called after a scan that found nothing: lastScanInfo is
\* set, scanResults is empty, and nothing was saved
C20_Witness ==
  /\ event.op = "downloadPDFCalled"
  /\ ~rendered.lastScanInfo.null
  /\ rendered.scanResults = <<>>
  /\ ~rendered.isScanning
  /\ toast.title = "No data to export"
  /\ exported.kind = "none"

\* how many demo findings there are for a type
DemoCount(type) ==
  CASE type = "nmap" -> 4
    [] type = "nuclei" -> 3
    [] type = "nikto" -> 3
    [] OTHER -> 0

\* the members every finding of the demo list for a type has
DemoShape(type) ==
  CASE type = "nmap" -> PortShape
    [] type = "nuclei" -> VulnShape
    [] type = "nikto" -> MisconfigShape
    [] OTHER -> {}

\* C21: the demo findings a fallback puts on the page depend on the type of
\* the request alone: 4 port findings for nmap, 3 findings for nuclei, 3 for
\* nikto, none for any other type, whatever the target and the state of the
\* page; and a fallback that follows a fallback for the same type, whose
\* findings are still in scanResults, leaves the very same findings.
C21_DemoResultsByTypeAlone ==
  [][\A i \in RunIds :
       RunFails(i) =>
         /\ Len(scanResults') = DemoCount(runs[i].body.type)
         /\ \A k \in 1..Len(scanResults') :
              DOMAIN scanResults'[k] = DemoShape(runs[i].body.type)
         /\ (lastOutcome.path = "demo" /\ scanResults # <<>>
               /\ lastOutcome.body.type = runs[i].body.type) =>
              scanResults' = scanResults]_vars

\* a second fallback for nikto, of another target than the first, whose
\* findings the page still renders: both left the same findings
C21_Witness ==
  /\ event.op = "scanFailed"
  /\ pending = "continuation"
  /\ lastOutcome = Outcome("demo", [target |-> <<"a", ";", "b">>, type |-> "nikto"])
  /\ rendered.lastScanInfo = [null |-> FALSE, type |-> "nikto", target |-> <<"a">>]
  /\ rendered.scanResults # <<>>
  /\ scanResults = rendered.scanResults
=============================================================================
